---- MODULE Spec2Model ----
(***************************************************************************)
(* A model of the JSON:API mapping layer of transifex_api/jsonapi.py: the  *)
(* Resource entity (construction, _overwrite, fetch, save, change, ...),   *)
(* the relationship codec and the Queryset cursor it hands out.            *)
(*                                                                         *)
(* Python dicts are functions over a finite set of string keys; Python     *)
(* None is the string "None" where a string is expected (an id, a TYPE)    *)
(* and the record Null where a dict or an object is expected.              *)
(***************************************************************************)
EXTENDS Integers, Sequences, FiniteSets, TLC

VARIABLES
    input,      \* SpecCtor: the arguments a construction is given
    built,      \* SpecCtor: what the constructions returned
    self,       \* Spec: the Resource instance the caller holds
    op,         \* Spec: the operation running or last run, with its arguments
    inflight,   \* Spec: the request the operation is blocked on, Null when none is
    sent,       \* Spec: the number of requests the operation has sent so far
    outcome,    \* Spec: "pending", "ok" or the name of the exception raised
    response,   \* Spec: the body the transport returned to the operation, if any
    server      \* Spec: the number of items the server's children collection holds

vars == <<input, built, self, op, inflight, sent, outcome, response, server>>

-----------------------------------------------------------------------------
(* Bounds of the model *)

\* the server hands out the ids "1" .. "MaxId"
MaxId == 2
\* a page of the children collection holds at most MaxPage items
MaxPage == 2
\* a collection that is listed holds at most MaxItems items
MaxItems == 7

\* the longest list of items a bulk call is given
MaxBatch == 2

-----------------------------------------------------------------------------
(* Python values *)

None == "None"
Null == [null |-> TRUE]
EmptyDict == [k \in {} |-> k]

Get(d, k, default) == IF k \in DOMAIN d THEN d[k] ELSE default
Put(d, k, v) == [x \in (DOMAIN d) \cup {k} |-> IF x = k THEN v ELSE d[x]]
Update(d, e) == [x \in (DOMAIN d) \cup (DOMAIN e) |-> IF x \in DOMAIN e THEN e[x] ELSE d[x]]
Restrict(d, ks) == [x \in (DOMAIN d) \cap ks |-> d[x]]

\* `if x:` on a string-or-None
TruthyStr(x) == x # None /\ x # ""
\* `if d:` on a dict
TruthyDict(d) == DOMAIN d # {}

Ids == {ToString(i) : i \in 1..MaxId}

-----------------------------------------------------------------------------
(* The registry and the declared variants *)

\* TYPE of each declared class; the base class Resource has TYPE = None
TYPE(cls) ==
    CASE cls = "Child" -> "children"
      [] cls = "Parent" -> "parents"
      [] cls = "Foo" -> "foos"
      [] OTHER -> None

\* whether the class declares EDITABLE (it is None otherwise), and the names it lists
DeclaresEDITABLE(cls) == cls = "Foo"
EDITABLE(cls) == IF cls = "Foo" THEN {"name", "age", "parent"} ELSE {}

\* _jsonapi_global.registry.get(type, Resource)
RegistryGet(type) ==
    CASE type = "children" -> "Child"
      [] type = "parents" -> "Parent"
      [] type = "foos" -> "Foo"
      [] OTHER -> "Resource"

-----------------------------------------------------------------------------
(* Resource: construction *)

IsResource(x) == "cls" \in DOMAIN x
IsQueryset(x) == "url" \in DOMAIN x
IsError(x) == "error" \in DOMAIN x
Raise(name) == [error |-> name]

\* an identifier that names the id alone; C4 does not hold of it
as_resource_identifier_by_id(r) == [type |-> None, id |-> r.id]

as_resource_identifier(r) == [type |-> TYPE(r.cls), id |-> r.id]
as_relationship(r) == [data |-> as_resource_identifier(r)]

\* the relationships dict _overwrite stores: Resource values are encoded
StoredRelationships(relationships) ==
    IF relationships = Null THEN EmptyDict
    ELSE [k \in DOMAIN relationships |->
            IF IsResource(relationships[k])
            THEN as_relationship(relationships[k])
            ELSE relationships[k]]

\* included = {(item['type'], item['id']): item for item in included}:
\* the last item with a key is the one the lookup keeps
RECURSIVE IncludedLookup(_, _)
IncludedLookup(included, key) ==
    IF included = <<>> THEN Null
    ELSE LET item == included[Len(included)]
         IN IF <<item.type, item.id>> = key THEN item
            ELSE IncludedLookup(SubSeq(included, 1, Len(included) - 1), key)

RECURSIVE _overwrite(_, _, _, _, _, _, _)
RECURSIVE new(_)

\* Resource._overwrite on an instance of class cls; an absent dict argument is Null,
\* an absent included list is <<>> (neither has an entry to look up)
_overwrite(cls, id, attributes, relationships, links, related, included) ==
    LET R == StoredRelationships(relationships)
        singular == {k \in DOMAIN R : R[k] = Null \/ "data" \in DOMAIN R[k]}
        r0 == [k \in singular |-> IF R[k] = Null THEN Null ELSE new(R[k])]
        hit(k) == IF R[k] = Null THEN Null
                  ELSE IncludedLookup(included, <<R[k].data.type, R[k].data.id>>)
        r1 == [k \in singular |-> IF hit(k) # Null THEN new(hit(k)) ELSE r0[k]]
        r2 == IF related = Null THEN r1 ELSE Update(r1, related)
    IN [cls |-> cls,
        id |-> id,
        attributes |-> IF attributes = Null THEN EmptyDict ELSE attributes,
        relationships |-> R,
        links |-> IF links = Null THEN EmptyDict ELSE links,
        related |-> r2]

\* Resource.new(data): unwraps an envelope, looks the class up by type name and
\* constructs it from the remaining fields (the type itself is not passed on)
new(data) ==
    LET d == IF "data" \in DOMAIN data THEN data.data ELSE data
    IN _overwrite(RegistryGet(Get(d, "type", None)),
                  Get(d, "id", None),
                  Get(d, "attributes", Null),
                  Get(d, "relationships", Null),
                  Get(d, "links", Null),
                  Get(d, "related", Null),
                  <<>>)

\* Resource.new(None) and Resource.new(type=..., id=...) reach the same branch
new_kw(type, id) ==
    _overwrite(RegistryGet(type), id, Null, Null, Null, Null, <<>>)

\* Resource.as_resource(data): a Resource comes back as it is (cls.new raises on
\* it and the exception is swallowed), None becomes an empty generic Resource
as_resource(data) ==
    IF IsResource(data) THEN data
    ELSE IF data = Null THEN new_kw(None, None)
    ELSE new(data)

\* cls(data): __init__ with a positional payload; the payload's own type and
\* included entries reach _overwrite, its sibling "included" does not
init_data(cls, data) ==
    LET d == IF "data" \in DOMAIN data THEN data.data ELSE data
    IN _overwrite(cls,
                  Get(d, "id", None),
                  Get(d, "attributes", Null),
                  Get(d, "relationships", Null),
                  Get(d, "links", Null),
                  Get(d, "related", Null),
                  Get(d, "included", <<>>))

\* cls(**fields): __init__ with named arguments only
init_kw(cls, fields) ==
    IF Get(fields, "type", None) # None /\ fields.type # TYPE(cls)
    THEN Raise("ValueError")
    ELSE _overwrite(cls,
                    Get(fields, "id", None),
                    Get(fields, "attributes", Null),
                    Get(fields, "relationships", Null),
                    Get(fields, "links", Null),
                    Get(fields, "related", Null),
                    <<>>)

\* Resource.__eq__
Eq(a, b) == as_resource_identifier(a) = as_resource_identifier(as_resource(b))

-----------------------------------------------------------------------------
(* Wire payloads *)

Ident(type, id) == [type |-> type, id |-> id]

\* a non-null singular relationship descriptor, as the server sends it
Singular(name, type, id) == [data |-> Ident(type, id), links |-> [self |-> "/self/" \o name, related |-> "/" \o type \o "/" \o id]]

\* a plural relationship descriptor: links and no data key
Plural(name) == [links |-> [self |-> "/self/" \o name, related |-> "/related/" \o name]]

\* the dicts that hold key k with one of the values vs, or do not hold it
Opt(k, vs) == {EmptyDict} \cup {k :> v : v \in vs}
Both(A, B) == {Update(a, b) : a \in A, b \in B}

AttributeDicts == {EmptyDict, [name |-> "a"], [name |-> "b"]}

\* the descriptors a "parent" relationship takes
ParentDescriptors == {Null} \cup {Singular("parent", "parents", i) : i \in Ids} \cup {[data |-> Ident("ghosts", "1")]}

RelationshipDicts == Both(Opt("parent", ParentDescriptors), Opt("children", {Plural("children")}))

\* resource objects of type t
ResourceObjects(t) == Both(Both({[type |-> t]}, Opt("id", Ids \cup {""})), Both(Both(Opt("attributes", AttributeDicts), Opt("relationships", RelationshipDicts)), Opt("links", {[self |-> "/link"]})))

\* the objects a response side-loads
IncludedObject(type, id) == [type |-> type, id |-> id, attributes |-> [name |-> "p" \o id]]
IncludedLists == {<<IncludedObject("parents", "1")>>, <<IncludedObject("ghosts", "1"), IncludedObject("parents", "2")>>}

-----------------------------------------------------------------------------
(* SpecCtor: the constructions of one payload *)

Variants == {"Child", "Parent"}

CtorInputs == [cls : Variants, payload : ResourceObjects("children") \cup ResourceObjects("parents"), included : {<<>>} \cup IncludedLists, other : {[type |-> t, id |-> i] : t \in {"children", "parents", "ghosts"}, i \in {"1", "2"}}]

Envelope(payload, included) == IF included = <<>> THEN [data |-> payload] ELSE [data |-> payload, included |-> included]

InitCtor ==
    /\ input \in CtorInputs
    /\ built = Null
    /\ self = Null
    /\ op = Null
    /\ inflight = Null
    /\ sent = 0
    /\ outcome = "ok"
    /\ response = Null
    /\ server = 0

\* Variant(relationships={'parent': p})
WithParent(cls, p) == init_kw(cls, [relationships |-> [parent |-> p]])

\* Variant(envelope), Variant(payload), Variant(**payload), Resource.new(other)
\* and Variant(relationships={'parent': p}) for p a Resource, an envelope, a
\* bare identifier of other, None, and a Resource that holds attributes
Construct ==
    /\ built = Null
    /\ built' = [envelope |-> init_data(input.cls, Envelope(input.payload, input.included)),
                 bare |-> init_data(input.cls, input.payload),
                 named |-> init_kw(input.cls, input.payload),
                 other |-> new(input.other),
                 byResource |-> WithParent(input.cls, new(input.other)),
                 byEnvelope |-> WithParent(input.cls, [data |-> input.other]),
                 byIdentifier |-> WithParent(input.cls, input.other),
                 byNull |-> WithParent(input.cls, Null),
                 byPopulated |-> WithParent(input.cls, new(IncludedObject(input.other.type, input.other.id)))]
    /\ UNCHANGED <<input, self, op, inflight, sent, outcome, response, server>>

NextCtor == Construct

SpecCtor == InitCtor /\ [][NextCtor]_vars

-----------------------------------------------------------------------------
(* Claims about construction, checked under SpecCtor *)

\* C3 (as claimed): for any resource object payload, the variant constructed from
\* the envelope {data: payload}, from the bare payload and from the payload's
\* fields as named arguments are three equal resources with the same id,
\* attributes, relationships and related entries.
C3_ConstructionEquivalence ==
    (built # Null /\ input.included = <<>>) =>
        /\ ~IsError(built.named)
        /\ Eq(built.envelope, built.bare) /\ Eq(built.bare, built.named)
        /\ \A f \in {"id", "attributes", "relationships", "related"} :
              built.envelope[f] = built.bare[f] /\ built.bare[f] = built.named[f]

\* C4: two Resource instances are equal if and only if their (type, id) pairs
\* match, whatever their attributes, relationships and related entries hold.
C4_EqualIffSameTypeAndId ==
    built # Null =>
        \A a \in {built.envelope, built.bare} : \A b \in {built.bare, built.other} :
            Eq(a, b) <=> (TYPE(a.cls) = TYPE(b.cls) /\ a.id = b.id)

\* C4 witness: two equal instances that differ in attributes, relationships and
\* related entries were built.
C4_Witness ==
    /\ built # Null
    /\ Eq(built.bare, built.other)
    /\ built.bare.attributes # built.other.attributes
    /\ built.bare.relationships # built.other.relationships
    /\ built.bare.related # built.other.related

\* the relationship names of a payload whose identifier an included object matches
IncludedNames(payload, included) ==
    LET R == Get(payload, "relationships", EmptyDict)
    IN {k \in DOMAIN R : /\ R[k] # Null
                         /\ "data" \in DOMAIN R[k]
                         /\ IncludedLookup(included, <<R[k].data.type, R[k].data.id>>) # Null}

\* C5 (as claimed): a resource constructed from a full response envelope has, for
\* every singular relationship whose identifier matches an object of the sibling
\* included list, a related entry that carries that object's attributes.
C5_IncludedResolvedAtConstruction ==
    built # Null =>
        \A k \in IncludedNames(input.payload, input.included) :
            LET d == input.payload.relationships[k].data
            IN built.envelope.related[k].attributes = IncludedLookup(input.included, <<d.type, d.id>>).attributes

-----------------------------------------------------------------------------
(* Transport and Queryset *)

Request(method, url, body) == [method |-> method, url |-> url, json |-> body]

\* Queryset(url): anchored at url, nothing requested yet
Queryset(url) == [url |-> url, fetched |-> FALSE, items |-> <<>>, next |-> None, previous |-> None]

\* a from_data that keeps the body for later and requests on first access;
\* C24 does not hold of it
from_data_lazy(url, body) == [url |-> url, fetched |-> FALSE, items |-> <<>>, next |-> None, previous |-> None]

\* Queryset.from_data(body) and the first access of a Queryset: the page is decoded
\* into resources and the links are kept
from_data(url, body) ==
    [url |-> url,
     fetched |-> TRUE,
     items |-> [i \in 1..Len(body.data) |-> new(body.data[i])],
     next |-> Get(Get(body, "links", EmptyDict), "next", None),
     previous |-> Get(Get(body, "links", EmptyDict), "previous", None)]

\* a length, index or iteration access of a Queryset: the first one requests the
\* page at the anchoring URL, any later one reads the cached page
Queryset_fetch_call(q) == IF q.fetched THEN Null ELSE Request("get", q.url, Null)
Queryset_fetch_return(q, body) == from_data(q.url, body)

\* a list() that requests its page at once; C10 does not hold of it
list_eager(cls) == from_data("/" \o TYPE(cls), [data |-> <<>>])

\* cls.list()
list(cls) == Queryset("/" \o TYPE(cls))

\* the server's page of a collection of the given type when it holds n items
PageObject(type, i) == [type |-> type, id |-> ToString(i), attributes |-> [name |-> type \o " " \o ToString(i)]]
Page(type, n) == [data |-> [i \in 1..n |-> PageObject(type, i)]]
ChildrenPage(n) == Page("children", n)

-----------------------------------------------------------------------------
(* Resource: operations.  Every operation blocks on the transport at most    *)
(* once: X_call runs it up to the request (or to its end when it sends none), *)
(* X_return runs it from the response to its end.                             *)

\* an operation that ended without a request, with outcome out
Done(r, out) == [self |-> r, outcome |-> out, request |-> Null]
\* an operation blocked on request req
Blocked(r, req) == [self |-> r, outcome |-> "pending", request |-> req]

_get_url(r) == IF "self" \in DOMAIN r.links THEN r.links.self ELSE "/" \o TYPE(r.cls) \o "/" \o r.id

\* a reload that empties the instance before it asks; C30 does not hold of it
reload_call_emptying(r) == Blocked(_overwrite(r.cls, r.id, Null, Null, Null, Null, <<>>), Request("get", _get_url(r), Null))

\* Resource.reload: one GET of the instance's URL ...
reload_call(r) == Blocked(r, Request("get", _get_url(r), Null))

\* ... then _overwrite(included=body.get('included'), **body['data'])
reload_return(r, body) ==
    _overwrite(r.cls,
               Get(body.data, "id", None),
               Get(body.data, "attributes", Null),
               Get(body.data, "relationships", Null),
               Get(body.data, "links", Null),
               Get(body.data, "related", Null),
               Get(body, "included", <<>>))

\* a resolved test that takes any cached Resource for resolved; C7 does not hold of it
is_singular_fetched_any(r, name) == name \in DOMAIN r.related /\ IsResource(r.related[name])

\* a resolved test that sees no cached Queryset; C6 does not hold of it
is_plural_fetched_never(r, name) == FALSE

is_singular_fetched(r, name) ==
    /\ name \in DOMAIN r.related
    /\ IsResource(r.related[name])
    /\ (TruthyDict(r.related[name].attributes) \/ TruthyDict(r.related[name].relationships))

is_plural_fetched(r, name) == name \in DOMAIN r.related /\ IsQueryset(r.related[name])

\* a fetch that resolves again whether or not force is given; C8 does not hold of it
fetch_call_forced(r, name, force) ==
    IF name \notin DOMAIN r.relationships THEN Done(r, "ValueError")
    ELSE IF r.relationships[name] = Null THEN Done(r, "ok")
    ELSE IF "data" \in DOMAIN r.relationships[name]
    THEN IF name \notin DOMAIN r.related THEN Done(r, "KeyError")
         ELSE IF ~IsResource(r.related[name]) THEN Done(r, "AttributeError")
         ELSE Blocked(r, reload_call(r.related[name]).request)
    ELSE Done([r EXCEPT !.related = Put(r.related, name, Queryset(r.relationships[name].links.related))], "ok")

\* Resource.fetch(name, force=force) up to the reload of the related object
fetch_call(r, name, force) ==
    IF name \notin DOMAIN r.relationships THEN Done(r, "ValueError")
    ELSE IF r.relationships[name] = Null THEN Done(r, "ok")
    ELSE IF (is_singular_fetched(r, name) \/ is_plural_fetched(r, name)) /\ ~force THEN Done(r, "ok")
    ELSE IF "data" \in DOMAIN r.relationships[name]
    THEN IF name \notin DOMAIN r.related THEN Done(r, "KeyError")
         ELSE IF ~IsResource(r.related[name]) THEN Done(r, "AttributeError")
         ELSE Blocked(r, reload_call(r.related[name]).request)
    ELSE Done([r EXCEPT !.related = Put(r.related, name, Queryset(r.relationships[name].links.related))], "ok")

\* the related object is overwritten where it is
fetch_return(r, name, body) == [r EXCEPT !.related = Put(r.related, name, reload_return(r.related[name], body))]

\* d with key k set to v when cond holds
PutIf(cond, d, k, v) == IF cond THEN Put(d, k, v) ELSE d

\* the request of Resource._save_existing(*fields)
_save_existing(r, fields) ==
    LET editable == IF fields # {} THEN fields ELSE EDITABLE(r.cls)
        attrs == Restrict(r.attributes, editable)
        rels == Restrict(r.relationships, editable \ DOMAIN r.attributes)
        payload == IF fields # {} \/ DeclaresEDITABLE(r.cls)
                   THEN PutIf(TruthyDict(rels), PutIf(TruthyDict(attrs), as_resource_identifier(r), "attributes", attrs), "relationships", rels)
                   ELSE PutIf(TruthyDict(r.relationships), PutIf(TruthyDict(r.attributes), as_resource_identifier(r), "attributes", r.attributes), "relationships", r.relationships)
    IN Request("patch", _get_url(r), [data |-> payload])

\* the request of Resource._save_new()
_save_new(r) ==
    LET payload == PutIf(TruthyDict(r.relationships), PutIf(TruthyDict(r.attributes), [type |-> TYPE(r.cls)], "attributes", r.attributes), "relationships", r.relationships)
    IN Request("post", "/" \o TYPE(r.cls), [data |-> payload])

\* Resource.save(*fields) up to its request
save_call(r, fields) == Blocked(r, IF TruthyStr(r.id) THEN _save_existing(r, fields) ELSE _save_new(r))

\* new_id of save: data['relationships'][name]['data']['id'], None on any exception
NewId(data, name) ==
    LET R == Get(data, "relationships", EmptyDict)
    IN IF name \in DOMAIN R /\ R[name] # Null /\ "data" \in DOMAIN R[name] THEN R[name].data.id ELSE None

\* current_id of save: related_instance.id, None on any exception
CurrentId(x) == IF IsResource(x) THEN x.id ELSE None

\* a save that keeps the Querysets alone and rebuilds every singular entry
\* from the response; C31 does not hold of it
SavedRelated_rebuilt(r, data) ==
    LET kept == {n \in DOMAIN r.related : IsQueryset(r.related[n]) \/ NewId(data, n) # None}
    IN [n \in kept |-> IF IsQueryset(r.related[n]) THEN r.related[n] ELSE new(data.relationships[n])]

\* the related dict save hands to _overwrite
SavedRelated(r, data) ==
    LET same(n) == IsQueryset(r.related[n]) \/ CurrentId(r.related[n]) = NewId(data, n)
        kept == {n \in DOMAIN r.related : same(n) \/ NewId(data, n) # None}
    IN [n \in kept |-> IF same(n) THEN r.related[n] ELSE new(data.relationships[n])]

\* Resource.save from its response on: _overwrite(related=related, **data)
save_return(r, body) ==
    _overwrite(r.cls,
               Get(body.data, "id", None),
               Get(body.data, "attributes", Null),
               Get(body.data, "relationships", Null),
               Get(body.data, "links", Null),
               SavedRelated(r, body.data),
               <<>>)

\* an assignment that treats every relationship as singular; C21 does not hold of it
setattr_any_relationship(r, attr, value) ==
    IF attr \in DOMAIN r.attributes THEN Done([r EXCEPT !.attributes = Put(r.attributes, attr, value)], "ok")
    ELSE IF attr \in DOMAIN r.relationships
    THEN LET v == as_resource(value)
         IN Done([r EXCEPT !.relationships = Put(r.relationships, attr, as_relationship(v)),
                           !.related = Put(r.related, attr, v)], "ok")
    ELSE Done(r, "ok")

\* Resource.__setattr__(attr, value) for a name that is no structural field
setattr(r, attr, value) ==
    IF attr \in DOMAIN r.attributes THEN Done([r EXCEPT !.attributes = Put(r.attributes, attr, value)], "ok")
    ELSE IF attr \in DOMAIN r.relationships
    THEN IF r.relationships[attr] = Null \/ "data" \in DOMAIN r.relationships[attr]
         THEN LET v == as_resource(value)
              IN Done([r EXCEPT !.relationships = Put(r.relationships, attr, as_relationship(v)),
                                !.related = Put(r.related, attr, v)], "ok")
         ELSE Done(r, "AttributeError")
    ELSE Done(r, "ok")

\* Resource.change(field, value) up to the request of _edit_relationship
change_call(r, field, value) ==
    IF field \notin DOMAIN r.relationships THEN Done(r, "KeyError")
    ELSE IF r.relationships[field] = Null THEN Done(r, "TypeError")
    ELSE IF "self" \notin DOMAIN Get(r.relationships[field], "links", EmptyDict) THEN Done(r, "KeyError")
    ELSE Blocked(r, Request("patch", r.relationships[field].links.self, [data |-> as_resource_identifier(as_resource(value))]))

\* Resource.change from the response on: the descriptor's data and the related entry
change_return(r, field, value) ==
    LET v == as_resource(value)
        r1 == [r EXCEPT !.relationships = Put(r.relationships, field, Put(r.relationships[field], "data", as_resource_identifier(v)))]
    IN IF field \notin DOMAIN r.related THEN Done(r1, "KeyError")
       ELSE IF IsResource(r.related[field]) /\ Eq(r.related[field], v) THEN Done(r1, "ok")
       ELSE Done([r1 EXCEPT !.related = Put(r.related, field, v)], "ok")

\* a length, index or iteration access of the Queryset cached for a relationship
access_call(r, name) ==
    LET req == Queryset_fetch_call(r.related[name])
    IN IF req = Null THEN Done(r, "ok") ELSE Blocked(r, req)
access_return(r, name, body) == [r EXCEPT !.related = Put(r.related, name, Queryset_fetch_return(r.related[name], body))]

\* Resource.delete up to its request ...
delete_call(r) == Blocked(r, Request("delete", _get_url(r), Null))

\* a delete that leaves an empty instance behind; C13 does not hold of it
delete_return_emptied(r) == _overwrite(r.cls, None, Null, Null, Null, Null, <<>>)

\* ... and from the response on: self.id = None
delete_return(r) == [r EXCEPT !.id = None]

\* a create that saves whatever it constructed; C14 does not hold of it
create_of_any_id(inst) == IF IsError(inst) THEN inst ELSE save_call(inst, {})

\* Variant.create(data) and Variant.create(**fields): the instance is
\* constructed, refused if it carries an id, and saved
create_of(inst) ==
    IF IsError(inst) THEN inst
    ELSE IF inst.id # None THEN Raise("ValueError")
    ELSE save_call(inst, {})

\* the method add, remove and reset hand to _edit_plural_relationship
EditMethod(name) ==
    CASE name = "add" -> "post"
      [] name = "remove" -> "delete"
      [] name = "reset" -> "patch"

\* an edit that drops the cached Queryset of the relationship; C19 does not hold of it
_edit_plural_relationship_evicting(r, method, field, values) ==
    LET payload == [i \in 1..Len(values) |-> as_resource_identifier(as_resource(values[i]))]
        evicted == [r EXCEPT !.related = Restrict(r.related, DOMAIN r.related \ {field})]
    IN IF field \notin DOMAIN r.relationships THEN Done(r, "KeyError")
       ELSE IF r.relationships[field] = Null THEN Done(r, "TypeError")
       ELSE IF "self" \notin DOMAIN Get(r.relationships[field], "links", EmptyDict) THEN Done(r, "KeyError")
       ELSE Blocked(evicted, Request(method, r.relationships[field].links.self, [data |-> payload]))

\* Resource._edit_plural_relationship(method, field, values) up to the request
\* of _edit_relationship; nothing of the instance is touched after it
_edit_plural_relationship(r, method, field, values) ==
    LET payload == [i \in 1..Len(values) |-> as_resource_identifier(as_resource(values[i]))]
    IN IF field \notin DOMAIN r.relationships THEN Done(r, "KeyError")
       ELSE IF r.relationships[field] = Null THEN Done(r, "TypeError")
       ELSE IF "self" \notin DOMAIN Get(r.relationships[field], "links", EmptyDict) THEN Done(r, "KeyError")
       ELSE Blocked(r, Request(method, r.relationships[field].links.self, [data |-> payload]))

-----------------------------------------------------------------------------
(* Spec: one instance, the operations called on it and the server's replies *)

\* the payloads the instance under test is constructed from
InitialObjects == Both(Both({[type |-> "children"]}, Both(Opt("id", {"", "1"}), Opt("links", {[self |-> "/link"]}))), Both(Opt("attributes", {[name |-> "a"]}), Opt("relationships", {[parent |-> Null], [parent |-> Singular("parent", "parents", "1"), children |-> Plural("children")]})))

\* the relationships the server reports for the instance
ServedRelationships == Both(Opt("parent", {Null, Singular("parent", "children", "1")} \cup {Singular("parent", "parents", i) : i \in Ids}), Opt("children", {Plural("children")}))

\* the bodies the server answers a reload, an update or a create of the instance with
SelfObjects(ids) == {[type |-> "children", id |-> i, attributes |-> [name |-> "a"], relationships |-> R] : i \in ids, R \in ServedRelationships}
SelfReplies(ids) == {Envelope(o, inc) : o \in SelfObjects(ids), inc \in {<<>>, <<IncludedObject("parents", "1")>>}}

\* the id of the object the server keeps at the instance's URL
ServedIds(r) == IF r.id \in Ids /\ "self" \notin DOMAIN r.links THEN {r.id} ELSE {"1"}

\* the bodies the server answers the reload of a related object with
RelatedObjects(x) == {[type |-> "parents", id |-> x.id, attributes |-> ar[1], relationships |-> ar[2]] : ar \in {<<EmptyDict, EmptyDict>>, <<[name |-> "p" \o x.id], EmptyDict>>, <<EmptyDict, [children |-> Plural("children")]>>}}
RelatedReplies(x) == {[data |-> o] : o \in RelatedObjects(x)}

\* the values a caller assigns to or changes a relationship to
Values == {new(IncludedObject("parents", "2")), [data |-> Ident("parents", "1")], Ident("ghosts", "1")}

RelationshipNames == {"parent", "children"}
FieldSets == {{}, {"name"}, {"parent"}, {"name", "children", "age"}}

\* the sizes the server's children collection takes
ServerSizes == {MaxPage - 1, MaxPage}

Init ==
    /\ input = Null
    /\ built = Null
    /\ \E cls \in {"Child", "Foo"}, p \in InitialObjects : self = init_data(cls, p)
    /\ op = [name |-> "init"]
    /\ inflight = Null
    /\ sent = 0
    /\ outcome = "ok"
    /\ response = Null
    /\ server \in ServerSizes

\* an operation is called and runs to its request or to its end
Call(o, res) ==
    /\ inflight = Null
    /\ op' = o
    /\ self' = res.self
    /\ outcome' = res.outcome
    /\ inflight' = res.request
    /\ sent' = IF res.request = Null THEN 0 ELSE 1
    /\ response' = Null
    /\ UNCHANGED <<input, built, server>>

\* operation n is blocked on its request
Waiting(n) == inflight # Null /\ op.name = n

\* the transport returns body to the blocked operation, which runs to its end
Return(body, res) ==
    /\ self' = res.self
    /\ outcome' = res.outcome
    /\ inflight' = Null
    /\ response' = body
    /\ UNCHANGED <<input, built, op, sent, server>>

Reload == Call([name |-> "reload"], reload_call(self))
ReloadReturn == Waiting("reload") /\ \E body \in SelfReplies(ServedIds(self)) : Return(body, Done(reload_return(self, body), "ok"))

FetchOf(name, force) == Call([name |-> "fetch", field |-> name, force |-> force], fetch_call(self, name, force))
Fetch == \E name \in RelationshipNames, force \in BOOLEAN : FetchOf(name, force)
FetchReturn == Waiting("fetch") /\ \E body \in RelatedReplies(self.related[op.field]) : Return(body, Done(fetch_return(self, op.field, body), "ok"))

SaveOf(fields) == Call([name |-> "save", fields |-> fields], save_call(self, fields))
Save == \E fields \in FieldSets : SaveOf(fields)
SaveReturn == Waiting("save") /\ \E body \in SelfReplies(IF inflight.method = "post" THEN Ids ELSE ServedIds(self)) : Return(body, Done(save_return(self, body), "ok"))

SetAttrOf(attr, value) == Call([name |-> "setattr", field |-> attr, value |-> value], setattr(self, attr, value))
SetAttr == \E attr \in {"name"} \cup RelationshipNames : \E value \in (IF attr = "name" THEN {"b"} ELSE Values) : SetAttrOf(attr, value)

ChangeOf(field, value) == Call([name |-> "change", field |-> field, value |-> value], change_call(self, field, value))
Change == \E value \in Values : ChangeOf("parent", value)
ChangeReturn == Waiting("change") /\ Return(Null, change_return(self, op.field, op.value))

AccessOf(name) == Call([name |-> "access", field |-> name], access_call(self, name))
Access == inflight = Null /\ \E name \in {n \in DOMAIN self.related : IsQueryset(self.related[n])} : AccessOf(name)
AccessReturn == Waiting("access") /\ Return(ChildrenPage(server), Done(access_return(self, op.field, ChildrenPage(server)), "ok"))

\* the transport raises instead of returning: the exception leaves the operation
Fail ==
    /\ inflight # Null
    /\ outcome' = "TransportError"
    /\ inflight' = Null
    /\ UNCHANGED <<input, built, self, op, sent, response, server>>

\* the server's children collection gains or loses items
ServerChange ==
    /\ \E n \in ServerSizes : n # server /\ server' = n
    /\ UNCHANGED <<input, built, self, op, inflight, sent, outcome, response>>

Next ==
    \/ Reload \/ ReloadReturn
    \/ Fetch \/ FetchReturn
    \/ Save \/ SaveReturn
    \/ SetAttr
    \/ Change \/ ChangeReturn
    \/ Access \/ AccessReturn
    \/ Fail
    \/ ServerChange

Spec == Init /\ [][Next]_vars

-----------------------------------------------------------------------------
(* SpecEdit: one instance, its deletion, the edits of its plural            *)
(* relationships, the fetches that show them, and create                     *)

\* the lists of values add, remove and reset are given
ValueLists == {<<>>, <<[data |-> Ident("parents", "1")]>>, <<new(IncludedObject("parents", "2")), Ident("parents", "1")>>, <<Ident("ghosts", "1"), new(IncludedObject("parents", "2"))>>}

\* the payloads create is given, positionally or as named arguments
CreateObjects == Both(Both(Opt("type", {"parents"}), Opt("id", {"", "1"})), {[attributes |-> [name |-> "a"]]})

InitEdit == Init /\ self.cls = "Child"

Delete == Call([name |-> "delete"], delete_call(self))
DeleteReturn == Waiting("delete") /\ Return(Null, Done(delete_return(self), "ok"))

EditOf(name, field, values) == Call([name |-> name, field |-> field, values |-> values], _edit_plural_relationship(self, EditMethod(name), field, values))
Edit == \E name \in {"add", "remove", "reset"}, values \in ValueLists : EditOf(name, "children", values)
EditReturn == inflight # Null /\ op.name \in {"add", "remove", "reset"} /\ Return(Null, Done(self, "ok"))

\* instance = Child.create(...): the caller holds the instance once create
\* has returned it, and what it held before if create raises
CreateOf(how, data) ==
    LET res == create_of(IF how = "data" THEN init_data("Child", data) ELSE init_kw("Child", data))
    IN Call([name |-> "create", how |-> how, data |-> data], IF IsError(res) THEN Done(self, res.error) ELSE res)
Create == \E how \in {"data", "named"}, data \in CreateObjects : CreateOf(how, data)
CreateReturn == Waiting("create") /\ \E body \in SelfReplies(Ids) : Return(body, Done(save_return(self, body), "ok"))

NextEdit ==
    \/ Delete \/ DeleteReturn
    \/ Edit \/ EditReturn
    \/ Create \/ CreateReturn
    \/ Fetch \/ FetchReturn
    \/ Access \/ AccessReturn
    \/ Fail
    \/ ServerChange

SpecEdit == InitEdit /\ [][NextEdit]_vars

-----------------------------------------------------------------------------
(* Claims about save, checked under Spec *)

\* C1 (as claimed): save() sends a create request (POST to the collection
\* endpoint /{type}, payload without an id) exactly when the instance's id is
\* null and an update request (PATCH to the item URL) otherwise; after a
\* successful create the id is the one the server returned, and a further
\* save() sends an update.
C1_SaveCreatesExactlyWhenIdIsNull ==
    [][/\ \A fields \in FieldSets : SaveOf(fields) =>
              IF self.id = None
              THEN /\ inflight'.method = "post"
                   /\ inflight'.url = "/" \o TYPE(self.cls)
                   /\ "id" \notin DOMAIN inflight'.json.data
              ELSE /\ inflight'.method = "patch"
                   /\ inflight'.url = _get_url(self)
       /\ (SaveReturn /\ inflight.method = "post") =>
              /\ self'.id = response'.data.id
              /\ save_call(self', {}).request.method = "patch"]_vars

\* the fields an update names: the explicit ones, else the declared editable
\* ones, else every attribute and relationship that is set
NamedFields(r, fields) ==
    IF fields # {} THEN fields
    ELSE IF DeclaresEDITABLE(r.cls) THEN EDITABLE(r.cls)
    ELSE DOMAIN r.attributes \cup DOMAIN r.relationships

\* what C2 requires of the request of a save(fields) on instance r
UpdateOfNamedFields(r, fields, request) ==
    /\ request.method = "patch"
    /\ Get(request.json.data, "type", None) = TYPE(r.cls)
    /\ Get(request.json.data, "id", None) = r.id
    /\ Get(request.json.data, "attributes", EmptyDict) = Restrict(r.attributes, NamedFields(r, fields))
    /\ Get(request.json.data, "relationships", EmptyDict) = Restrict(r.relationships, NamedFields(r, fields))

\* C2 (as claimed): save(f1..fn) on an instance with a non-null id sends an
\* update whose payload carries the type, the id and exactly the named fields
\* that are attributes or relationships, and nothing else; without explicit
\* fields the named fields are the declared editable ones, and without those
\* every attribute and relationship that is set.
C2_UpdateCarriesExactlyTheNamedFields ==
    [][\A fields \in FieldSets : (SaveOf(fields) /\ self.id # None) => UpdateOfNamedFields(self, fields, inflight')]_vars

\* C1 and C2 hold of every instance whose id is neither null nor empty
SaveOfTruthyId ==
    [][\A fields \in FieldSets : SaveOf(fields) =>
          IF self.id = None THEN inflight'.method = "post"
          ELSE self.id # "" => UpdateOfNamedFields(self, fields, inflight')]_vars

-----------------------------------------------------------------------------
(* Claims about fetch, change and the cached Queryset, checked under Spec *)

IsSingular(r, name) == name \in DOMAIN r.relationships /\ r.relationships[name] # Null /\ "data" \in DOMAIN r.relationships[name]
IsPlural(r, name) == name \in DOMAIN r.relationships /\ r.relationships[name] # Null /\ "data" \notin DOMAIN r.relationships[name]
HasQueryset(r, name) == name \in DOMAIN r.related /\ IsQueryset(r.related[name])
HasResource(r, name) == name \in DOMAIN r.related /\ IsResource(r.related[name])

\* a related object that is a bare identifier, and one that carries fields
Bare(x) == DOMAIN x.attributes = {} /\ DOMAIN x.relationships = {}
Populated(x) == ~Bare(x)

\* C6: fetch(name) on a plural relationship that is not resolved, and
\* fetch(name, force=true) on any plural relationship, put a fresh Queryset
\* anchored at the related link in the cache, whose first access sends exactly
\* one request (the fetch sends none itself); fetch(name) without force on a
\* resolved plural relationship changes nothing and sends nothing, and a later
\* access of a Queryset that has its page sends nothing.
C6_PluralFetch ==
    [][/\ \A force \in BOOLEAN : (FetchOf("children", force) /\ IsPlural(self, "children")) =>
              /\ outcome' = "ok"
              /\ sent' = 0
              /\ IF HasQueryset(self, "children") /\ ~force
                 THEN self' = self
                 ELSE /\ self'.related["children"] = Queryset(self.relationships["children"].links.related)
                      /\ access_call(self', "children").request = Request("get", self.relationships["children"].links.related, Null)
       /\ (HasQueryset(self, "children") /\ AccessOf("children")) =>
              sent' = IF self.related["children"].fetched THEN 0 ELSE 1
       /\ AccessReturn =>
              /\ self'.related[op.field].fetched
              /\ access_call(self', op.field).request = Null]_vars

\* C6 witness: a forced fetch has replaced the cached Queryset by one that
\* has not requested its page yet.
C6_Witness ==
    /\ op = [name |-> "fetch", field |-> "children", force |-> TRUE]
    /\ outcome = "ok"
    /\ HasQueryset(self, "children")
    /\ ~self.related["children"].fetched

\* fetch(name) on a non-null singular relationship whose related object is a
\* bare identifier sends exactly one request, for that object
FetchOfBare ==
    \A force \in BOOLEAN : (FetchOf("parent", force) /\ IsSingular(self, "parent") /\ HasResource(self, "parent") /\ Bare(self.related["parent"])) =>
        /\ sent' = 1
        /\ inflight' = Request("get", _get_url(self.related["parent"]), Null)

\* the response populates that same related object, and nothing else changes
FetchInPlace ==
    FetchReturn =>
        /\ self'.related[op.field].cls = self.related[op.field].cls
        /\ self'.related[op.field].attributes = Get(response'.data, "attributes", EmptyDict)
        /\ self'.related[op.field].relationships = Get(response'.data, "relationships", EmptyDict)
        /\ [self' EXCEPT !.related = self.related] = self
        /\ \A n \in DOMAIN self.related \ {op.field} : self'.related[n] = self.related[n]

\* fetch(name, force=true) sends exactly one request, also right after a fetch
FetchForced ==
    /\ (FetchOf("parent", TRUE) /\ IsSingular(self, "parent") /\ HasResource(self, "parent")) => sent' = 1
    /\ FetchReturn => fetch_call(self', op.field, TRUE).request # Null

\* C7 (as claimed): fetch(name) on a non-null singular relationship whose
\* related object is a bare identifier sends exactly one request and populates
\* that object in place; once a fetch(name) has succeeded, a fetch(name)
\* without force sends no request and fetch(name, force=true) sends exactly one.
C7_NoRequestOnceFetchSucceeded ==
    [][/\ FetchOfBare
       /\ FetchInPlace
       /\ FetchForced
       /\ FetchReturn => fetch_call(self', op.field, FALSE) = Done(self', "ok")]_vars

\* C7 (amended): as C7, but a fetch(name) without force sends no request
\* exactly when the related object carries at least one attribute or
\* relationship: after a fetch whose response carries neither, the next
\* fetch(name) requests the object again.
C7_NoRequestOncePopulated ==
    [][/\ FetchOfBare
       /\ FetchInPlace
       /\ FetchForced
       /\ FetchReturn => (fetch_call(self', op.field, FALSE) = Done(self', "ok") <=> Populated(self'.related[op.field]))
       /\ (FetchOf("parent", FALSE) /\ IsSingular(self, "parent") /\ HasResource(self, "parent") /\ Populated(self.related["parent"])) =>
              (sent' = 0 /\ self' = self)]_vars

\* C7 witness: a fetch of the parent has returned and populated the related
\* object.
C7_Witness ==
    /\ op.name = "fetch"
    /\ sent = 1
    /\ inflight = Null
    /\ outcome = "ok"
    /\ response # Null
    /\ HasResource(self, op.field)
    /\ Populated(self.related[op.field])

\* C8: a plural relationship that shows a page keeps showing it over every
\* fetch(name) without force, whatever the server's collection has become;
\* fetch(name, force=true) puts a Queryset without a page in its place, and the
\* page an access then requests is the server's current one.
C8_CachedPageUntilForced ==
    [][/\ (FetchOf("children", FALSE) /\ HasQueryset(self, "children") /\ self.related["children"].fetched) =>
              (self'.related["children"] = self.related["children"] /\ sent' = 0)
       /\ (FetchOf("children", TRUE) /\ IsPlural(self, "children")) =>
              (HasQueryset(self', "children") /\ ~self'.related["children"].fetched)
       /\ AccessReturn =>
              /\ Len(self'.related[op.field].items) = server
              /\ \A i \in 1..server : self'.related[op.field].items[i].id = ToString(i)
       /\ ServerChange => self' = self]_vars

\* C8 witness: after a fetch without force the relationship still shows a page
\* that is no longer the server's.
C8_Witness ==
    /\ op = [name |-> "fetch", field |-> "children", force |-> FALSE]
    /\ outcome = "ok"
    /\ HasQueryset(self, "children")
    /\ self.related["children"].fetched
    /\ Len(self.related["children"].items) # server

\* the {type, id} a value names: a Resource, a relationship envelope or a bare
\* resource identifier
IdentOf(value) ==
    IF IsResource(value) THEN [type |-> TYPE(value.cls), id |-> value.id]
    ELSE IF "data" \in DOMAIN value THEN value.data
    ELSE value

\* what C9 requires of change(field, value): of its request ...
ChangeRequest(field, value) ==
    /\ sent' = 1
    /\ inflight' = Request("patch", self.relationships[field].links.self, [data |-> IdentOf(value)])

\* ... and of the instance when it returns
ChangeResult ==
    /\ outcome' = "ok"
    /\ self'.relationships[op.field].data = IdentOf(op.value)
    /\ as_resource_identifier(self'.related[op.field]) = IdentOf(op.value)

\* C9 (as claimed): change(name, value) on a singular relationship sends
\* exactly one PATCH to the relationship's self link with body {data: {type,
\* id}} of the value, and when it returns the descriptor's data and the related
\* entry identify the value, for a value that is a Resource, a relationship
\* envelope or a bare resource identifier.
C9_ChangeReplacesRelationship ==
    [][/\ \A value \in Values : (ChangeOf("parent", value) /\ "parent" \in DOMAIN self.relationships) => ChangeRequest("parent", value)
       /\ ChangeReturn => ChangeResult]_vars

\* C9 holds of the values of a registered type when the descriptor carries links
ChangeToRegisteredType ==
    [][/\ \A value \in Values : (ChangeOf("parent", value) /\ IsSingular(self, "parent") /\ "links" \in DOMAIN self.relationships["parent"] /\ RegistryGet(IdentOf(value).type) # "Resource") => ChangeRequest("parent", value)
       /\ (ChangeReturn /\ RegistryGet(IdentOf(op.value).type) # "Resource") => ChangeResult]_vars

-----------------------------------------------------------------------------
(* SpecQs: one Queryset handed out by list(), its accesses and the server *)

\* the ways a caller reads a Queryset
AccessKinds == {"len", "getitem", "iter"}

\* the kinds of has_next() / has_previous(), which need the page as well
LinkKinds == {"has_next", "has_previous"}

\* the kinds of all() / all_pages()
WalkKinds == {"all", "all_pages"}

\* the server cuts a collection into pages of PerPage items
PerPage == 3
CollectionSizes == 0..MaxItems

\* the URL of page k of the collection of a type, as the links name it
PageUrl(type, k) == "/" \o type \o "?page=" \o ToString(k)
PageNumber(type, url) == IF url = "/" \o type THEN 1 ELSE CHOOSE k \in 1..(MaxItems + 1) : url = PageUrl(type, k)

\* the body the server answers the request of url with when the collection holds n items
ServedPage(type, url, n) ==
    LET k == PageNumber(type, url)
        lo == (k - 1) * PerPage + 1
        hi == IF k * PerPage < n THEN k * PerPage ELSE n
    IN [data |-> [i \in 1..(hi - lo + 1) |-> PageObject(type, lo + i - 1)],
        links |-> Update(IF hi < n THEN [next |-> PageUrl(type, k + 1)] ELSE EmptyDict,
                         IF k > 1 THEN [previous |-> PageUrl(type, k - 1)] ELSE EmptyDict)]

\* queryset.has_next() / has_previous() on a Queryset that has its page
has_link(q, kind) == IF kind = "has_next" THEN q.next # None ELSE q.previous # None

\* a next() / previous() that moves the receiver itself; C11 does not hold of it
adjacent_in_place(q, dir) ==
    [self |-> Queryset(IF dir = "next" THEN q.next ELSE q.previous),
     result |-> Queryset(IF dir = "next" THEN q.next ELSE q.previous)]

\* queryset.next() / previous(): the receiver as the call leaves it, and the
\* Queryset it returns
adjacent(q, dir) == [self |-> q, result |-> Queryset(IF dir = "next" THEN q.next ELSE q.previous)]

\* a walk that yields the latest page first; C12 does not hold of it
walk_latest_first(q, pages) ==
    IF q.next # None
    THEN [pages |-> <<q.items>> \o pages, cursor |-> Queryset(q.next), request |-> Request("get", q.next, Null)]
    ELSE [pages |-> <<q.items>> \o pages, cursor |-> q, request |-> Null]

\* one round of all_pages() at a page q that has its items: q is yielded, and
\* the page its next link names, if any, is the one to request
walk(q, pages) ==
    IF q.next # None
    THEN [pages |-> Append(pages, q.items), cursor |-> Queryset(q.next), request |-> Request("get", q.next, Null)]
    ELSE [pages |-> Append(pages, q.items), cursor |-> q, request |-> Null]

\* what all() yields: the items of the pages all_pages() yields, in order
RECURSIVE Flatten(_)
Flatten(pages) == IF pages = <<>> THEN <<>> ELSE Head(pages) \o Flatten(Tail(pages))

InitQs ==
    /\ input \in {[cls |-> c] : c \in {"Child", "Parent", "Foo"}}
    /\ built = Null
    /\ self = Null
    /\ op = [name |-> "init"]
    /\ inflight = Null
    /\ sent = 0
    /\ outcome = "ok"
    /\ response = Null
    /\ server \in CollectionSizes

\* queryset = Variant.list()
List == self = Null /\ Call([name |-> "list"], Done(list(input.cls), "ok"))

\* len(queryset), queryset[i] or iteration over it, up to the request of the page
QsAccessOf(kind) ==
    LET req == Queryset_fetch_call(self)
    IN Call([name |-> kind], IF req = Null THEN Done(self, "ok") ELSE Blocked(self, req))
QsAccess == IsQueryset(self) /\ \E kind \in AccessKinds : QsAccessOf(kind)

\* queryset.has_next() / has_previous(): the page is requested if it is not there
QsHasLink == IsQueryset(self) /\ \E kind \in LinkKinds : QsAccessOf(kind)

\* the page arrives and the access reads it
QsAccessReturn ==
    /\ inflight # Null
    /\ op.name \notin WalkKinds
    /\ LET body == ServedPage(TYPE(input.cls), inflight.url, server)
       IN Return(body, Done(Queryset_fetch_return(self, body), "ok"))

\* other = queryset.next() / previous(), and the caller goes on with other:
\* built keeps the receiver
QsAdjacentOf(dir) ==
    /\ inflight = Null
    /\ self.fetched
    /\ (IF dir = "next" THEN self.next ELSE self.previous) # None
    /\ op' = [name |-> dir]
    /\ built' = adjacent(self, dir).self
    /\ self' = adjacent(self, dir).result
    /\ outcome' = "ok"
    /\ sent' = 0
    /\ response' = Null
    /\ UNCHANGED <<input, inflight, server>>
QsAdjacent == IsQueryset(self) /\ \E dir \in {"next", "previous"} : QsAdjacentOf(dir)

\* list(queryset.all()) / list(queryset.all_pages()) up to its first request
QsWalkOf(kind) ==
    LET w == IF self.fetched THEN walk(self, <<>>)
             ELSE [pages |-> <<>>, cursor |-> self, request |-> Request("get", self.url, Null)]
    IN /\ inflight = Null
       /\ op' = [name |-> kind]
       /\ built' = [pages |-> w.pages, cursor |-> w.cursor]
       /\ inflight' = w.request
       /\ sent' = IF w.request = Null THEN 0 ELSE 1
       /\ outcome' = IF w.request = Null THEN "ok" ELSE "pending"
       /\ response' = Null
       /\ UNCHANGED <<input, self, server>>
QsWalk == IsQueryset(self) /\ \E kind \in WalkKinds : QsWalkOf(kind)

\* a page of the walk arrives: it is yielded and the walk follows its next link
QsWalkReturn ==
    /\ inflight # Null
    /\ op.name \in WalkKinds
    /\ LET body == ServedPage(TYPE(input.cls), inflight.url, server)
           q == Queryset_fetch_return(built.cursor, body)
           w == walk(q, built.pages)
       IN /\ self' = IF built.pages = <<>> THEN q ELSE self
          /\ built' = [pages |-> w.pages, cursor |-> w.cursor]
          /\ inflight' = w.request
          /\ sent' = IF w.request = Null THEN sent ELSE sent + 1
          /\ outcome' = IF w.request = Null THEN "ok" ELSE "pending"
          /\ response' = body
          /\ UNCHANGED <<input, op, server>>

\* the collection gains or loses items while no request is under way
CollectionChange ==
    /\ inflight = Null
    /\ \E n \in CollectionSizes : n # server /\ server' = n
    /\ UNCHANGED <<input, built, self, op, inflight, sent, outcome, response>>

NextQs ==
    \/ List
    \/ QsAccess \/ QsHasLink \/ QsAccessReturn
    \/ QsAdjacent
    \/ QsWalk \/ QsWalkReturn
    \/ Fail
    \/ CollectionChange

SpecQs == InitQs /\ [][NextQs]_vars

\* C10: a Queryset sends no request when list() creates it, exactly one on its
\* first length, index or iteration access, and none on any later access.
C10_QuerysetRequestsOnFirstAccess ==
    [][/\ List => (sent' = 0 /\ inflight' = Null /\ ~self'.fetched)
       /\ \A kind \in AccessKinds : (IsQueryset(self) /\ QsAccessOf(kind)) =>
              IF self.fetched
              THEN sent' = 0 /\ inflight' = Null /\ self' = self
              ELSE sent' = 1 /\ inflight' = Request("get", self.url, Null)
       /\ QsAccessReturn => (self'.fetched /\ Queryset_fetch_call(self') = Null)]_vars

\* C10 witness: a later access of a Queryset that has its page has sent nothing.
C10_Witness ==
    /\ IsQueryset(self)
    /\ self.fetched
    /\ op.name \in AccessKinds
    /\ sent = 0
    /\ outcome = "ok"

\* C11: next() and previous() on a Queryset return a new Queryset anchored at
\* the adjacent link that has requested nothing, and leave the receiver, its
\* items and its links as they were; has_next() and has_previous() are true
\* exactly when the page carries that link; the first access of the returned
\* Queryset sends exactly one request and leaves the receiver alone.
C11_AdjacentPageIsNewAndUnfetched ==
    [][/\ \A dir \in {"next", "previous"} : (IsQueryset(self) /\ QsAdjacentOf(dir)) =>
              /\ built' = self
              /\ self' = Queryset(IF dir = "next" THEN self.next ELSE self.previous)
              /\ ~self'.fetched
              /\ sent' = 0
              /\ Queryset_fetch_call(self') = Request("get", IF dir = "next" THEN self.next ELSE self.previous, Null)
       /\ (QsAccessReturn /\ op.name \in LinkKinds) =>
              /\ has_link(self', "has_next") <=> "next" \in DOMAIN response'.links
              /\ has_link(self', "has_previous") <=> "previous" \in DOMAIN response'.links
       /\ \A kind \in AccessKinds : (IsQueryset(self) /\ IsQueryset(built) /\ ~self.fetched /\ QsAccessOf(kind)) =>
              (sent' = 1 /\ built' = built)]_vars

\* C11 witness: the Queryset next() returned has requested its page, once, and
\* the receiver still holds its own page and links.
C11_Witness ==
    /\ IsQueryset(self)
    /\ IsQueryset(built)
    /\ op.name \in AccessKinds
    /\ built.fetched
    /\ self.fetched
    /\ self.url = built.next
    /\ sent = 1
    /\ inflight = Null

\* the pages that follow in link order from the page at url, when the
\* collection holds n items
RECURSIVE ChainFrom(_, _, _)
ChainFrom(type, url, n) ==
    IF url = None THEN <<>>
    ELSE LET body == ServedPage(type, url, n)
         IN <<[i \in 1..Len(body.data) |-> new(body.data[i])]>> \o ChainFrom(type, Get(body.links, "next", None), n)

\* a walk has come to its end
WalkEnds == (QsWalk \/ QsWalkReturn) /\ inflight' = Null

\* C12: for the chain of pages P1..Pn that the next links form from the
\* receiver's page P1, all_pages() yields exactly P1, ..., Pn in link order,
\* page by page, and all() yields exactly their items in that order and stops.
C12_WalkYieldsThePagesInLinkOrder ==
    [][WalkEnds =>
          /\ built'.pages = <<self'.items>> \o ChainFrom(TYPE(input.cls), self'.next, server)
          /\ Len(Flatten(built'.pages)) = Len(self'.items) + Len(Flatten(ChainFrom(TYPE(input.cls), self'.next, server)))
          /\ \A i \in 1..Len(Flatten(built'.pages)) :
                Flatten(built'.pages)[i].id = ToString((PageNumber(TYPE(input.cls), self'.url) - 1) * PerPage + i)
          /\ built'.cursor.next = None]_vars

\* C12 witness: a walk that began at a Queryset without a page has ended after
\* three pages and three requests.
C12_Witness ==
    /\ op.name \in WalkKinds
    /\ inflight = Null
    /\ outcome = "ok"
    /\ "pages" \in DOMAIN built
    /\ Len(built.pages) = 3
    /\ sent = 3

-----------------------------------------------------------------------------
(* Claims about delete, create and the plural edits, checked under SpecEdit *)

\* the item URL of an instance: its self link, else /{type}/{id}
ItemUrl(r) == IF "self" \in DOMAIN r.links THEN r.links.self ELSE "/" \o TYPE(r.cls) \o "/" \o r.id

\* C13: delete() sends exactly one DELETE to the instance's item URL and then
\* sets id to null; attributes, relationships, related and links stay as they
\* were, and a save() of the instance afterwards is a create.
C13_DeleteClearsTheIdAlone ==
    [][/\ Delete => (sent' = 1 /\ inflight' = Request("delete", ItemUrl(self), Null) /\ self' = self)
       /\ DeleteReturn =>
              /\ self'.id = None
              /\ \A f \in {"cls", "attributes", "relationships", "related", "links"} : self'[f] = self[f]
              /\ save_call(self', {}).request.method = "post"]_vars

\* C13 witness: a delete has returned on an instance that holds attributes,
\* relationships, related entries and links.
C13_Witness ==
    /\ op.name = "delete"
    /\ inflight = Null
    /\ outcome = "ok"
    /\ sent = 1
    /\ self.id = None
    /\ DOMAIN self.attributes # {}
    /\ DOMAIN self.related # {}
    /\ DOMAIN self.links # {}

\* the instance create constructs from its arguments
Constructed(how, data) == IF how = "data" THEN init_data("Child", data) ELSE init_kw("Child", data)

\* C14: create(...) raises a validation error and sends nothing whenever the
\* instance it constructed carries a non-null id; otherwise it sends exactly
\* one create request and returns the instance with the id the server assigned.
C14_CreateRefusesAnId ==
    [][/\ \A how \in {"data", "named"}, data \in CreateObjects : CreateOf(how, data) =>
              IF IsError(Constructed(how, data)) \/ Constructed(how, data).id # None
              THEN outcome' = "ValueError" /\ sent' = 0 /\ inflight' = Null /\ self' = self
              ELSE /\ sent' = 1
                   /\ inflight'.method = "post"
                   /\ inflight'.url = "/children"
                   /\ "id" \notin DOMAIN inflight'.json.data
       /\ CreateReturn => (outcome' = "ok" /\ sent' = 1 /\ self'.id = response'.data.id /\ self'.id \in Ids)]_vars

\* C14 witness: a create has returned an instance with the server's id.
C14_Witness ==
    /\ op.name = "create"
    /\ inflight = Null
    /\ outcome = "ok"
    /\ sent = 1
    /\ response # Null
    /\ self.id = response.data.id

\* what C18 requires of the request of add, remove or reset
PluralEditRequest(name, field, values) ==
    /\ sent' = 1
    /\ inflight'.method = (CASE name = "add" -> "post" [] name = "remove" -> "delete" [] name = "reset" -> "patch")
    /\ inflight'.url = self.relationships[field].links.self
    /\ inflight'.json = [data |-> [i \in 1..Len(values) |-> IdentOf(values[i])]]

\* C18 (as claimed): add, remove and reset on a plural relationship each send
\* exactly one request to the relationship's self link, a POST, a DELETE and a
\* PATCH, whose data is the list of the {type, id} of the given values in the
\* given order, for values that are Resources, relationship envelopes or bare
\* resource identifiers.
C18_PluralEditSendsTheIdentifiers ==
    [][\A name \in {"add", "remove", "reset"}, values \in ValueLists :
          (EditOf(name, "children", values) /\ IsPlural(self, "children")) => PluralEditRequest(name, "children", values)]_vars

\* C18 holds of the lists whose values are all of a registered type
PluralEditOfRegisteredTypes ==
    [][\A name \in {"add", "remove", "reset"}, values \in ValueLists :
          (EditOf(name, "children", values) /\ IsPlural(self, "children") /\ \A i \in 1..Len(values) : RegistryGet(IdentOf(values[i]).type) # "Resource")
              => PluralEditRequest(name, "children", values)]_vars

\* C19: add, remove and reset leave attributes, relationships and the related
\* cache as they were, when they send their request and when it returns: a
\* Queryset fetched before still shows its page.
C19_PluralEditLeavesTheInstance ==
    [][/\ \A name \in {"add", "remove", "reset"}, values \in ValueLists : EditOf(name, "children", values) => self' = self
       /\ EditReturn => (self' = self /\ outcome' = "ok")]_vars

\* C19 witness: an edit has returned and the relationship still shows a page
\* fetched before it, which is not the server's any more.
C19_Witness ==
    /\ op.name \in {"add", "remove", "reset"}
    /\ inflight = Null
    /\ outcome = "ok"
    /\ sent = 1
    /\ HasQueryset(self, "children")
    /\ self.related["children"].fetched
    /\ Len(self.related["children"].items) # server

-----------------------------------------------------------------------------
(* Claims about the variant's type and the registry, checked under SpecCtor *)

\* C15 (as claimed): constructing a variant fails with a validation error
\* whenever the type supplied, as the named argument or as the type field of
\* the payload passed in, differs from the variant's type, and succeeds when
\* they agree.
C15_ConstructionChecksTheType ==
    built # Null =>
        \A how \in {"envelope", "bare", "named"} :
            IF input.payload.type # TYPE(input.cls)
            THEN IsError(built[how]) /\ built[how].error = "ValueError"
            ELSE ~IsError(built[how])

\* the part of C15 that holds at construction: the named type argument is checked
NamedTypeIsChecked ==
    built # Null => (IsError(built.named) <=> input.payload.type # TYPE(input.cls))

\* C17 (as claimed): dispatching a payload by its type name returns an
\* instance of the class registered for that name, and for a name with no
\* registered class a generic resource whose resource identifier and
\* relationship encoding carry that type name.
C17_DispatchRetainsTheType ==
    built # Null =>
        /\ built.other.cls = RegistryGet(input.other.type)
        /\ as_resource_identifier(built.other) = input.other
        /\ as_relationship(built.other) = [data |-> input.other]

\* C17 holds of the type names that have a registered class
DispatchOfRegisteredTypes ==
    (built # Null /\ RegistryGet(input.other.type) # "Resource") =>
        /\ built.other.cls = RegistryGet(input.other.type)
        /\ as_resource_identifier(built.other) = input.other
        /\ as_relationship(built.other) = [data |-> input.other]

\* what C25 requires of a resource constructed with relationships={parent: p}
\* for p of the given type and id
HoldsParent(x, ident) ==
    /\ x.relationships = [parent |-> [data |-> ident]]
    /\ DOMAIN x.related = {"parent"}
    /\ IsResource(x.related["parent"])
    /\ [type |-> TYPE(x.related["parent"].cls), id |-> x.related["parent"].id] = ident

\* C25 (as claimed): constructing a resource with relationships={name: p}
\* produces the same state, the descriptor {data: {type, id}} and a related
\* entry that is a resource of that type and id, whether p is a Resource, a
\* relationship envelope or a bare resource identifier; with p null the
\* descriptor and the related entry are both null.
C25_RelationshipArgumentForms ==
    built # Null =>
        /\ \A how \in {"byResource", "byEnvelope", "byIdentifier"} : HoldsParent(built[how], input.other)
        /\ built.byResource = built.byEnvelope
        /\ built.byEnvelope = built.byIdentifier
        /\ built.byNull.relationships = [parent |-> Null]
        /\ built.byNull.related = [parent |-> Null]

\* C25 holds of a Resource and of an envelope of a registered type, and of null
ResourceAndEnvelopeForms ==
    (built # Null /\ RegistryGet(input.other.type) # "Resource") =>
        /\ \A how \in {"byResource", "byEnvelope"} : HoldsParent(built[how], input.other)
        /\ built.byResource = built.byEnvelope
        /\ built.byNull.relationships = [parent |-> Null]
        /\ built.byNull.related = [parent |-> Null]

\* C33 (as claimed): when construction receives a Resource instance as a
\* relationship value, the stored descriptor is its encoded form
\* {data: {type, id}} and the related entry for that name is the original
\* instance: it carries the original's attributes and relationships, not only
\* its identifier.
C33_ResourceValueSeedsRelated ==
    built # Null =>
        /\ built.byPopulated.relationships = [parent |-> [data |-> input.other]]
        /\ HasResource(built.byPopulated, "parent")
        /\ built.byPopulated.related["parent"] = new(IncludedObject(input.other.type, input.other.id))
        /\ built.byPopulated.related["parent"].attributes = IncludedObject(input.other.type, input.other.id).attributes

\* the part of C33 that holds: the descriptor is the encoded form of the
\* instance and the related entry is a resource with its identifier
ResourceValueIsEncoded ==
    built # Null =>
        /\ built.byPopulated.relationships = [parent |-> as_relationship(new(IncludedObject(input.other.type, input.other.id)))]
        /\ HasResource(built.byPopulated, "parent")
        /\ as_resource_identifier(built.byPopulated.related["parent"]) = as_resource_identifier(new(IncludedObject(input.other.type, input.other.id)))

-----------------------------------------------------------------------------
(* Claims about the instance's type, the related cache and attribute-style  *)
(* assignment, checked under Spec                                            *)

\* the part of C15 about an existing instance: its type never changes, whatever
\* type a reload or save response carries
TypeNeverChanges == [][self'.cls = self.cls]_vars

\* C16 (as claimed): after any sequence of construction, reload, fetch, save,
\* attribute-style assignment and change, the keys of the related cache are a
\* subset of the keys of relationships.
C16_RelatedKeysAreRelationshipKeys == DOMAIN self.related \subseteq DOMAIN self.relationships

\* C16 holds of every step but the return of a save
RelatedKeysKeptButBySave ==
    [][(DOMAIN self.related \subseteq DOMAIN self.relationships /\ ~Waiting("save"))
          => DOMAIN self'.related \subseteq DOMAIN self'.relationships]_vars

\* what C20 requires of the assignment of value to the relationship name
AssignmentResult(name, value) ==
    /\ outcome' = "ok"
    /\ sent' = 0
    /\ inflight' = Null
    /\ self'.relationships[name] = [data |-> IdentOf(value)]
    /\ IsResource(self'.related[name])
    /\ [type |-> TYPE(self'.related[name].cls), id |-> self'.related[name].id] = IdentOf(value)
    /\ IsResource(value) => self'.related[name] = value

\* C20 (as claimed): assigning a value to a name that is a singular
\* relationship (descriptor null or carrying a data key) replaces the
\* descriptor with {data: {type, id}} of the value and sets the related entry
\* to the value as a Resource, without any request, for a value that is a
\* Resource, a relationship envelope or a bare resource identifier.
C20_AssignmentEncodesTheValue ==
    [][\A name \in RelationshipNames, value \in Values :
          (/\ op'.name = "setattr" /\ op'.field = name
           /\ SetAttrOf(name, value)
           /\ name \notin DOMAIN self.attributes
           /\ name \in DOMAIN self.relationships
           /\ (self.relationships[name] = Null \/ "data" \in DOMAIN self.relationships[name]))
              => AssignmentResult(name, value)]_vars

\* C20 holds of the values of a registered type
AssignmentOfRegisteredTypes ==
    [][\A name \in RelationshipNames, value \in Values :
          (/\ op'.name = "setattr" /\ op'.field = name
           /\ SetAttrOf(name, value)
           /\ name \notin DOMAIN self.attributes
           /\ name \in DOMAIN self.relationships
           /\ (self.relationships[name] = Null \/ "data" \in DOMAIN self.relationships[name])
           /\ RegistryGet(IdentOf(value).type) # "Resource")
              => AssignmentResult(name, value)]_vars

\* C21: assigning any value to a name that is a plural relationship
\* (descriptor without a data key) is rejected with an AttributeError, sends
\* no request and leaves the descriptor and the related cache as they were.
C21_PluralAssignmentIsRejected ==
    [][\A name \in RelationshipNames, value \in Values :
          (/\ op'.name = "setattr" /\ op'.field = name
           /\ SetAttrOf(name, value)
           /\ name \notin DOMAIN self.attributes
           /\ IsPlural(self, name))
              => /\ outcome' = "AttributeError"
                 /\ sent' = 0
                 /\ inflight' = Null
                 /\ self' = self]_vars

\* C21 witness: an assignment to a plural relationship that holds a Queryset
\* was rejected.
C21_Witness ==
    /\ op.name = "setattr"
    /\ outcome = "AttributeError"
    /\ inflight = Null
    /\ sent = 0
    /\ IsPlural(self, op.field)
    /\ HasQueryset(self, op.field)

-----------------------------------------------------------------------------
(* SpecBulk: one bulk call of a variant, or one from_data, and the reads of  *)
(* the Queryset it returns                                                   *)

\* a Python tuple among the items of a bulk call
Tuple(t) == [tuple |-> t]
IsTuple(x) == "tuple" \in DOMAIN x

\* Resource._extract_from_item(item): a Resource gives its own fields, a dict
\* answers .get for the three keys, a tuple is unpacked into three or two; the
\* last branch unpacks None and raises
_extract_from_item(item) ==
    IF IsResource(item) THEN [attributes |-> item.attributes, relationships |-> item.relationships, id |-> item.id]
    ELSE IF ~IsTuple(item)
    THEN [attributes |-> Get(item, "attributes", Null), relationships |-> Get(item, "relationships", Null), id |-> Get(item, "id", None)]
    ELSE IF Len(item.tuple) = 3
    THEN [attributes |-> item.tuple[1], relationships |-> item.tuple[2], id |-> item.tuple[3]]
    ELSE IF Len(item.tuple) = 2
    THEN [attributes |-> item.tuple[1], relationships |-> item.tuple[2], id |-> None]
    ELSE Raise("TypeError")

\* {key: Resource.as_resource(value).as_relationship() for key, value in relationships.items()}
EncodedRelationships(relationships) ==
    [k \in DOMAIN relationships |-> as_relationship(as_resource(relationships[k]))]

\* the resource object bulk_create appends for an extracted item
CreatePayload(cls, e) ==
    Update(Update([type |-> TYPE(cls)],
                  IF e.attributes # Null THEN [attributes |-> e.attributes] ELSE EmptyDict),
           IF e.relationships # Null THEN [relationships |-> EncodedRelationships(e.relationships)] ELSE EmptyDict)

\* the first item the loop of a bulk call stops at, if any
FirstOf(bad) == CHOOSE i \in bad : \A j \in bad : i <= j

\* a bulk_create that sends whatever it is given; C22 does not hold of it
bulk_create_call_any_id(cls, items) ==
    LET ex == [i \in 1..Len(items) |-> _extract_from_item(items[i])]
        bad == {i \in 1..Len(items) : IsError(ex[i])}
    IN IF bad # {} THEN Done(Null, ex[FirstOf(bad)].error)
       ELSE Blocked(Null, Request("post", "/" \o TYPE(cls), [data |-> [i \in 1..Len(items) |-> CreatePayload(cls, ex[i])]]))

\* cls.bulk_create(items) up to its request
bulk_create_call(cls, items) ==
    LET ex == [i \in 1..Len(items) |-> _extract_from_item(items[i])]
        bad == {i \in 1..Len(items) : IsError(ex[i]) \/ ex[i].id # None}
    IN IF bad # {} THEN Done(Null, IF IsError(ex[FirstOf(bad)]) THEN ex[FirstOf(bad)].error ELSE "ValueError")
       ELSE Blocked(Null, Request("post", "/" \o TYPE(cls), [data |-> [i \in 1..Len(items) |-> CreatePayload(cls, ex[i])]]))

\* the fields argument of bulk_update: Null when it is not given
EffectiveFields(cls, fields) ==
    IF fields = Null THEN (IF DeclaresEDITABLE(cls) THEN EDITABLE(cls) ELSE {}) ELSE fields.names

\* the resource object bulk_update appends for an extracted item
UpdatePayload(cls, e, names) ==
    LET attributes == IF e.attributes = Null THEN EmptyDict
                      ELSE IF names # {} THEN Restrict(e.attributes, names) ELSE e.attributes
        relationships == IF e.relationships = Null THEN EmptyDict
                         ELSE IF names # {} THEN Restrict(e.relationships, names) ELSE e.relationships
    IN Update(Update([type |-> TYPE(cls), id |-> e.id],
                     IF TruthyDict(attributes) THEN [attributes |-> attributes] ELSE EmptyDict),
              IF TruthyDict(relationships) THEN [relationships |-> EncodedRelationships(relationships)] ELSE EmptyDict)

\* cls.bulk_update(items, fields) up to its request
bulk_update_call(cls, items, fields) ==
    LET ex == [i \in 1..Len(items) |-> _extract_from_item(items[i])]
        bad == {i \in 1..Len(items) : IsError(ex[i]) \/ ex[i].id = None}
    IN IF bad # {} THEN Done(Null, IF IsError(ex[FirstOf(bad)]) THEN ex[FirstOf(bad)].error ELSE "ValueError")
       ELSE Blocked(Null, Request("patch", "/" \o TYPE(cls), [data |-> [i \in 1..Len(items) |-> UpdatePayload(cls, ex[i], EffectiveFields(cls, fields))]]))

\* the values a relationship of an item is given
ParentValues == {new(IncludedObject("parents", "2")), [data |-> Ident("parents", "1")], Ident("ghosts", "1"), Null}

\* the items of each documented shape: Resources, dicts with optional fields,
\* tuples of two and of three, and bare attributes
BareItems == {[name |-> "d"]}
Items ==
    {init_kw("Child", [attributes |-> [name |-> "a"], relationships |-> [parent |-> [data |-> Ident("parents", "1")]]]),
     init_kw("Child", [attributes |-> [name |-> "a"], relationships |-> [parent |-> Null]]),
     init_kw("Child", [id |-> "1", attributes |-> [name |-> "a", age |-> "3"]])}
        \cup {[attributes |-> [name |-> "b"]],
              [id |-> "2", attributes |-> [name |-> "b"]]}
        \cup {[attributes |-> [name |-> "b"], relationships |-> [parent |-> v]] : v \in ParentValues}
        \cup {Tuple(<<[name |-> "c"], Null>>),
              Tuple(<<[name |-> "c"], [parent |-> [data |-> Ident("parents", "1")]]>>),
              Tuple(<<[name |-> "c"], Null, "1">>)}
        \cup BareItems

RECURSIVE ListsOf(_, _)
ListsOf(S, n) == IF n = 0 THEN {<<>>} ELSE {<<>>} \cup {<<x>> \o l : x \in S, l \in ListsOf(S, n - 1)}
ItemLists == ListsOf(Items, MaxBatch)

FieldsArgs == {Null, [names |-> {}], [names |-> {"name"}], [names |-> {"parent", "age"}]}

\* the bodies the server answers a batch of n items with, and the bodies a
\* caller has in hand
BulkReplies(n) == {Update(Page("children", n), l) : l \in Opt("links", {[next |-> PageUrl("children", 2)], [previous |-> PageUrl("children", 1)]})}

InitBulk ==
    /\ input \in {[cls |-> c] : c \in {"Child", "Foo"}}
    /\ built = Null
    /\ self = Null
    /\ op = [name |-> "init"]
    /\ inflight = Null
    /\ sent = 0
    /\ outcome = "ok"
    /\ response = Null
    /\ server = 0

BulkCreateOf(items) == Call([name |-> "bulk_create", items |-> items], bulk_create_call(input.cls, items))
BulkCreate == op.name = "init" /\ \E items \in ItemLists : BulkCreateOf(items)

BulkUpdateOf(items, fields) == Call([name |-> "bulk_update", items |-> items, fields |-> fields], bulk_update_call(input.cls, items, fields))
BulkUpdate == op.name = "init" /\ \E items \in ItemLists, fields \in FieldsArgs : BulkUpdateOf(items, fields)

\* the response of the batch arrives: return Queryset.from_data(response_body)
BulkReturn ==
    /\ inflight # Null
    /\ op.name \in {"bulk_create", "bulk_update"}
    /\ \E body \in BulkReplies(Len(op.items)) : Return(body, Done(from_data(None, body), "ok"))

\* queryset = Queryset.from_data(body)
FromData == op.name = "init" /\ \E n \in 0..MaxBatch : \E body \in BulkReplies(n) : Call([name |-> "from_data", body |-> body], Done(from_data(None, body), "ok"))

NextBulk ==
    \/ BulkCreate \/ BulkUpdate \/ BulkReturn
    \/ FromData
    \/ QsAccess \/ QsHasLink
    \/ Fail

SpecBulk == InitBulk /\ [][NextBulk]_vars

-----------------------------------------------------------------------------
(* Claims about the bulk calls, checked under SpecBulk *)

\* the id an item of a bulk call carries
ItemId(item) ==
    IF IsResource(item) THEN item.id
    ELSE IF IsTuple(item) THEN (IF Len(item.tuple) = 3 THEN item.tuple[3] ELSE None)
    ELSE Get(item, "id", None)

\* the call raised a validation error and sent nothing
Refused == outcome' = "ValueError" /\ sent' = 0 /\ inflight' = Null

\* C22: bulk_create raises a validation error if any item carries a non-null
\* id, and bulk_update if any item has no id; in both cases no request is
\* sent for the batch, whatever valid items precede the offending one.
\* Without such an item each of them sends one request for the whole batch.
C22_BulkRefusesTheWholeBatch ==
    [][/\ \A items \in ItemLists : (op'.name = "bulk_create" /\ BulkCreateOf(items)) =>
              IF \E i \in 1..Len(items) : ItemId(items[i]) # None
              THEN Refused
              ELSE sent' = 1 /\ inflight'.method = "post" /\ Len(inflight'.json.data) = Len(items)
       /\ \A items \in ItemLists, fields \in FieldsArgs : (op'.name = "bulk_update" /\ BulkUpdateOf(items, fields)) =>
              IF \E i \in 1..Len(items) : ItemId(items[i]) = None
              THEN Refused
              ELSE sent' = 1 /\ inflight'.method = "patch" /\ Len(inflight'.json.data) = Len(items)]_vars

\* C22 witness: a bulk_create was refused for its second item, after a valid
\* first one, and nothing was sent.
C22_Witness ==
    /\ op.name = "bulk_create"
    /\ outcome = "ValueError"
    /\ sent = 0
    /\ inflight = Null
    /\ Len(op.items) = 2
    /\ ItemId(op.items[1]) = None
    /\ ItemId(op.items[2]) # None

\* the attributes and the relationships an item of a documented shape gives
ItemAttributes(item) ==
    IF IsResource(item) THEN item.attributes
    ELSE IF IsTuple(item) THEN item.tuple[1]
    ELSE IF item \in BareItems THEN item
    ELSE Get(item, "attributes", Null)
ItemRelationships(item) ==
    IF IsResource(item) THEN item.relationships
    ELSE IF IsTuple(item) THEN item.tuple[2]
    ELSE IF item \in BareItems THEN Null
    ELSE Get(item, "relationships", Null)

\* the relationship encoding of a value: null stays null
EncodingOf(value) == IF value = Null THEN Null ELSE [data |-> IdentOf(value)]

\* what C23 requires of the resource object sent for an item
CarriesTheItem(cls, object, item) ==
    /\ object.type = TYPE(cls)
    /\ "id" \notin DOMAIN object
    /\ Get(object, "attributes", EmptyDict) = (IF ItemAttributes(item) = Null THEN EmptyDict ELSE ItemAttributes(item))
    /\ Get(object, "relationships", EmptyDict) =
           (IF ItemRelationships(item) = Null THEN EmptyDict
            ELSE [k \in DOMAIN ItemRelationships(item) |-> EncodingOf(ItemRelationships(item)[k])])

\* the items without an id, which bulk_create accepts
NewItems(items) == \A i \in 1..Len(items) : ItemId(items[i]) = None

\* C23 (as claimed): bulk_create accepts each documented item shape (an
\* unsaved Resource, a mapping with optional attributes and relationships, a
\* 2-tuple of (attributes, relationships), a bare attributes mapping) and
\* sends for each item one resource object of the variant's type that carries
\* that item's attributes and relationships.
C23_BulkCreateSendsEachItem ==
    [][\A items \in ItemLists : (op'.name = "bulk_create" /\ BulkCreateOf(items) /\ NewItems(items)) =>
          /\ sent' = 1
          /\ inflight'.url = "/" \o TYPE(input.cls)
          /\ Len(inflight'.json.data) = Len(items)
          /\ \A i \in 1..Len(items) : CarriesTheItem(input.cls, inflight'.json.data[i], items[i])]_vars

\* the items C23 holds of: no bare attributes mapping, and relationships whose
\* values are non-null and of a registered type
Extractable(item) ==
    /\ item \notin BareItems
    /\ ItemRelationships(item) # Null =>
           \A k \in DOMAIN ItemRelationships(item) :
               /\ ItemRelationships(item)[k] # Null
               /\ RegistryGet(IdentOf(ItemRelationships(item)[k]).type) # "Resource"
BulkCreateOfExtractableItems ==
    [][\A items \in ItemLists : (op'.name = "bulk_create" /\ BulkCreateOf(items) /\ NewItems(items) /\ \A i \in 1..Len(items) : Extractable(items[i])) =>
          /\ sent' = 1
          /\ inflight'.url = "/" \o TYPE(input.cls)
          /\ Len(inflight'.json.data) = Len(items)
          /\ \A i \in 1..Len(items) : CarriesTheItem(input.cls, inflight'.json.data[i], items[i])]_vars

\* C24: a Queryset built by from_data from a body in hand has its page:
\* length, index and iteration read the body's items, has_next and
\* has_previous reflect the body's links, and none of them sends a request;
\* bulk_create and bulk_update return such a Queryset, so each sends exactly
\* one request in all.
C24_FromDataIsFetched ==
    [][/\ (BulkReturn \/ FromData) =>
              LET body == IF op'.name = "from_data" THEN op'.body ELSE response'
              IN /\ IsQueryset(self') /\ self'.fetched
                 /\ Queryset_fetch_call(self') = Null
                 /\ Len(self'.items) = Len(body.data)
                 /\ \A i \in 1..Len(self'.items) : as_resource_identifier(self'.items[i]) = [type |-> body.data[i].type, id |-> body.data[i].id]
                 /\ has_link(self', "has_next") <=> "next" \in DOMAIN Get(body, "links", EmptyDict)
                 /\ has_link(self', "has_previous") <=> "previous" \in DOMAIN Get(body, "links", EmptyDict)
       /\ BulkReturn => sent' = 1
       /\ FromData => sent' = 0
       /\ \A kind \in AccessKinds \cup LinkKinds : (IsQueryset(self) /\ QsAccessOf(kind)) =>
              /\ sent' = 0 /\ inflight' = Null /\ self' = self
              /\ (op.name \in {"bulk_create", "bulk_update"} => sent + sent' = 1)]_vars

\* C24 witness: a bulk_update has returned a Queryset that holds the two
\* items and the next link of the response, after the one request of the batch.
C24_Witness ==
    /\ op.name = "bulk_update"
    /\ inflight = Null
    /\ outcome = "ok"
    /\ sent = 1
    /\ IsQueryset(self)
    /\ self.fetched
    /\ Len(self.items) = 2
    /\ self.next # None

-----------------------------------------------------------------------------
(* Claims about what save leaves in the related cache, checked under Spec *)

\* the included objects of a response body that the descriptor of name matches
IncludedFor(body, r, name) ==
    {i \in 1..Len(Get(body, "included", <<>>)) :
        /\ IsSingular(r, name)
        /\ body.included[i].type = r.relationships[name].data.type
        /\ body.included[i].id = r.relationships[name].data.id}

\* C26 (as claimed): when the response to save() carries an included list,
\* the related entries of the saved instance whose identifiers match included
\* objects are populated from it: their attributes are readable after the
\* save with no further request.
C26_SavePopulatesFromIncluded ==
    [][SaveReturn =>
          \A name \in DOMAIN self'.relationships : \A i \in IncludedFor(response', self', name) :
              /\ HasResource(self', name)
              /\ self'.related[name].attributes = response'.included[i].attributes]_vars

\* reload, which C26 mirrors, does populate the related entries from included
ReloadPopulatesFromIncluded ==
    [][ReloadReturn =>
          \A name \in DOMAIN self'.relationships : \A i \in IncludedFor(response', self', name) :
              /\ HasResource(self', name)
              /\ self'.related[name].attributes = response'.included[i].attributes]_vars

\* the identifier the response of a save reports for a relationship, None
\* when it reports none
ReportedIdent(body, name) ==
    LET R == Get(body.data, "relationships", EmptyDict)
    IN IF name \in DOMAIN R /\ R[name] # Null /\ "data" \in DOMAIN R[name] THEN R[name].data ELSE Null

\* the (type, id) of a cached related entry, Null when the entry is null
CachedIdent(x) == IF IsResource(x) THEN [type |-> TYPE(x.cls), id |-> x.id] ELSE Null

\* what C28 requires of the entry of name after a save answered with body
SavedEntry(name, body) ==
    IF IsQueryset(self.related[name])
    THEN name \in DOMAIN self'.related /\ self'.related[name] = self.related[name]
    ELSE IF ReportedIdent(body, name) = CachedIdent(self.related[name])
    THEN TRUE
    ELSE IF ReportedIdent(body, name) # Null
    THEN /\ HasResource(self', name)
         /\ Bare(self'.related[name])
         /\ CachedIdent(self'.related[name]) = ReportedIdent(body, name)
    ELSE name \notin DOMAIN self'.related \/ self'.related[name] = Null

\* C28 (as claimed): after save(), for each singular relationship cached in
\* related before the call: if the identifier in the response differs from
\* the cached one and is non-null, the related entry is a fresh unresolved
\* Resource (no attributes, no relationships) for the new identifier; if it
\* changed to null, the cached entry is dropped; and every cached Queryset of
\* a plural relationship is left as it was.
C28_SaveRefreshesTheRelatedCache ==
    [][SaveReturn => \A name \in DOMAIN self.related : SavedEntry(name, response')]_vars

\* C28 holds when the cached entry and the response do not name the same id
\* under two types
SaveRefreshesOnANewId ==
    [][(Waiting("save") /\ outcome' = "ok") =>
          \A name \in DOMAIN self.related :
              (IsQueryset(self.related[name]) \/ CurrentId(self.related[name]) # NewId(response'.data, name)
                  \/ ReportedIdent(response', name) = CachedIdent(self.related[name]))
                      => SavedEntry(name, response')]_vars

\* C29 (as claimed): after any sequence of construction, reload, fetch,
\* attribute-style assignment, change and save, for every relationship whose
\* descriptor is singular and non-null and whose related entry is a Resource,
\* the (type, id) of the related entry equals the (type, id) in the
\* descriptor's data.
C29_RelatedEntryMatchesDescriptor ==
    \A name \in DOMAIN self.relationships :
        (IsSingular(self, name) /\ HasResource(self, name)) =>
            CachedIdent(self.related[name]) = self.relationships[name].data

\* C29 holds of every step but the return of a save, for descriptors of a
\* registered type
RelatedEntryMatchesButBySave ==
    [][~Waiting("save") =>
          \A name \in DOMAIN self'.relationships :
              (IsSingular(self', name) /\ HasResource(self', name) /\ RegistryGet(self'.relationships[name].data.type) # "Resource"
                  /\ (name \in DOMAIN self.relationships /\ IsSingular(self, name) /\ HasResource(self, name)
                          => CachedIdent(self.related[name]) = self.relationships[name].data))
                  => CachedIdent(self'.related[name]) = self'.relationships[name].data]_vars

-----------------------------------------------------------------------------
(* SpecFilter: the Querysets that filter builds from list() and from the    *)
(* variant, and their first access                                          *)

\* the filter criteria a Queryset carries; one that was never filtered has none
Params(q) == Get(q, "params", EmptyDict)

\* queryset.filter(**criteria): a new Queryset at the same anchor that has
\* requested nothing, whose criteria are the receiver's updated with the given ones
filter(q, criteria) == Update(Queryset(q.url), [params |-> Update(Params(q), criteria)])

\* a Variant.filter that forgets its criteria; C27 does not hold of it
_queryset_method_unfiltered(cls, criteria) == Queryset("/" \o TYPE(cls))

\* Variant.filter(**criteria): getattr(Queryset(f"/{cls.TYPE}"), 'filter')(**criteria)
_queryset_method(cls, criteria) == filter(Queryset("/" \o TYPE(cls)), criteria)

\* the criteria of test_filter, and one with a second key
Criteria == {[odd |-> "1"], [odd |-> "2"], [even |-> "1"], [odd |-> "1", even |-> "2"]}

\* queryset = Variant.filter(**criteria)
ClassFilter == self = Null /\ \E criteria \in Criteria : Call([name |-> "class_filter", criteria |-> criteria], Done(_queryset_method(input.cls, criteria), "ok"))

\* queryset = queryset.filter(**criteria)
Filter == IsQueryset(self) /\ \E criteria \in Criteria : Call([name |-> "filter", criteria |-> criteria], Done(filter(self, criteria), "ok"))

\* the first access of a filtered Queryset requests its anchor with its criteria
FilterAccess ==
    /\ IsQueryset(self)
    /\ \E kind \in AccessKinds :
          Call([name |-> kind],
               IF self.fetched THEN Done(self, "ok")
               ELSE Blocked(self, Update(Queryset_fetch_call(self), [params |-> Params(self)])))
FilterAccessReturn ==
    /\ inflight # Null
    /\ LET body == ServedPage(TYPE(input.cls), inflight.url, server)
       IN Return(body, Done(Update(Queryset_fetch_return(self, body), [params |-> Params(self)]), "ok"))

NextFilter == List \/ ClassFilter \/ Filter \/ FilterAccess \/ FilterAccessReturn

SpecFilter == InitQs /\ [][NextFilter]_vars

\* C27: a Queryset obtained by list() and then filter(a) requests the same
\* collection with the same criteria as filter(a) called on the variant; a
\* filter on any Queryset sends nothing, and when filter is applied again the
\* later value replaces the earlier one for its key while the other keys are kept.
C27_FilterComposes ==
    [][/\ (Filter /\ op.name = "list") =>
              /\ self' = _queryset_method(input.cls, op'.criteria)
              /\ self'.url = "/" \o TYPE(input.cls)
              /\ Params(self') = op'.criteria
       /\ ClassFilter => (self'.url = list(input.cls).url /\ Params(self') = op'.criteria /\ ~self'.fetched)
       /\ (Filter \/ ClassFilter) => (sent' = 0 /\ inflight' = Null /\ ~self'.fetched)
       /\ Filter =>
              /\ self'.url = self.url
              /\ DOMAIN Params(self') = DOMAIN Params(self) \cup DOMAIN op'.criteria
              /\ \A k \in DOMAIN op'.criteria : Params(self')[k] = op'.criteria[k]
              /\ \A k \in DOMAIN Params(self) \ DOMAIN op'.criteria : Params(self')[k] = Params(self)[k]
       /\ (FilterAccess /\ ~self.fetched) =>
              (sent' = 1 /\ inflight'.url = self.url /\ inflight'.params = Params(self))]_vars

\* C27 witness: a Queryset that filter gave two criteria, one call after the
\* other, has requested its page with both.
C27_Witness ==
    /\ IsQueryset(self)
    /\ self.fetched
    /\ sent = 1
    /\ response # Null
    /\ Params(self) = [odd |-> "1", even |-> "1"]

-----------------------------------------------------------------------------
(* SpecFail: the operations of one instance when every Transport call fails *)

NextFail == Reload \/ Save \/ Delete \/ Change \/ Edit \/ Fetch \/ Fail

SpecFail == Init /\ [][NextFail]_vars

\* C30: if the Transport call made by reload, save, delete, change, add,
\* remove, reset or a single-name fetch fails, the error reaches the caller
\* as it is, no second request is attempted, and the instance's id,
\* attributes, relationships, related cache and links are what they were
\* before the call: nothing is assigned before the request, and nothing
\* after the failure.
C30_TransportFailureLeavesTheInstance ==
    [][/\ ((Reload \/ Save \/ Delete \/ Change \/ Edit \/ Fetch) /\ inflight' # Null) =>
              /\ sent' = 1
              /\ \A f \in {"cls", "id", "attributes", "relationships", "related", "links"} : self'[f] = self[f]
       /\ Fail =>
              /\ outcome' = "TransportError"
              /\ inflight' = Null
              /\ sent' = 1
              /\ \A f \in {"cls", "id", "attributes", "relationships", "related", "links"} : self'[f] = self[f]]_vars

\* C30 witness: the request of a reload of an instance that holds attributes
\* and a related entry has failed.
C30_Witness ==
    /\ op.name = "reload"
    /\ outcome = "TransportError"
    /\ inflight = Null
    /\ sent = 1
    /\ DOMAIN self.attributes # {}
    /\ HasResource(self, "parent")

-----------------------------------------------------------------------------
(* Claims about the related objects save keeps, checked under Spec *)

\* a save has returned
SaveReturned == Waiting("save") /\ outcome' = "ok"

\* the cached entry of name is a resolved Resource that the response still names
KeptBy(r, name, body) ==
    /\ HasResource(r, name)
    /\ Populated(r.related[name])
    /\ ReportedIdent(body, name) = CachedIdent(r.related[name])

\* C31: save() keeps every resolved singular related object whose identifier
\* is the same in the response as in the cache: its attributes and
\* relationships are still there after the save, which sent no request for
\* it, and a fetch(name) without force after it sends no request.
C31_SaveKeepsResolvedRelated ==
    [][SaveReturned =>
          \A name \in DOMAIN self.related :
              KeptBy(self, name, response') =>
                  /\ HasResource(self', name)
                  /\ self'.related[name].attributes = self.related[name].attributes
                  /\ self'.related[name].relationships = self.related[name].relationships
                  /\ CachedIdent(self'.related[name]) = CachedIdent(self.related[name])
                  /\ sent' = 1
                  /\ fetch_call(self', name, FALSE).request = Null
                  /\ fetch_call(self', name, FALSE).self = self']_vars

\* C31 witness: a save has returned whose response names the parent that was
\* cached with its attributes.
C31_Witness ==
    /\ op.name = "save"
    /\ inflight = Null
    /\ outcome = "ok"
    /\ response # Null
    /\ KeptBy(self, "parent", response)
    /\ DOMAIN self.related["parent"].attributes # {}

-----------------------------------------------------------------------------
(* SpecKind: change, add, remove and reset called on the relationships of   *)
(* one instance, singular and plural alike                                  *)

ChangeAny == \E field \in RelationshipNames, value \in Values : ChangeOf(field, value)
EditAny == \E name \in {"add", "remove", "reset"}, field \in RelationshipNames, values \in ValueLists : EditOf(name, field, values)

NextKind == ChangeAny \/ ChangeReturn \/ EditAny \/ EditReturn

SpecKind == Init /\ [][NextKind]_vars

\* the descriptor of name carries a data key
HasData(r, name) == name \in DOMAIN r.relationships /\ r.relationships[name] # Null /\ "data" \in DOMAIN r.relationships[name]

\* C32 (as claimed): no relationship-editing operation changes whether a
\* relationship is singular or plural: after change, add, remove or reset on
\* a relationship name, its descriptor carries a data key if and only if it
\* carried one before the call, for a call on a relationship of either kind.
C32_EditsKeepTheKind ==
    [][\A name \in DOMAIN self.relationships :
          self.relationships[name] # Null => (HasData(self', name) <=> HasData(self, name))]_vars

\* C32 holds of add, remove and reset on either kind and of change on a
\* singular relationship
EditsKeepTheKindButChangeOfPlural ==
    [][~(Waiting("change") /\ IsPlural(self, op.field)) =>
          \A name \in DOMAIN self.relationships :
              self.relationships[name] # Null => (HasData(self', name) <=> HasData(self, name))]_vars

====
